---- MODULE Spec2Model ----
(***************************************************************************)
(* A model of the kmeans Centroid of crunchypi/net-means: a centroid owns  *)
(* a vector and a slice of payloads (DataPoints); payloads carry a vector  *)
(* and an expiry predicate.  Every exported method is one action.  The two *)
(* injected search functions are opaque: a call pulls the generator some   *)
(* number of times and returns any list of distinct indices of the vectors *)
(* it was given, at most k of them, in any order.                          *)
(***************************************************************************)
EXTENDS Integers, Sequences, FiniteSets, TLC

\* ------------------------------------------------------------------ bounds
NumPayloads == 4      \* payload containers that exist
MaxN == 2             \* largest n / k handed to a drain or lookup
MaxReceivers == 2     \* longest receiver list handed to DistributePayload
MaxHeld == 3          \* the driver stops adding at this many held entries
MaxExpired == 2       \* payloads that expire during a run
MaxCalls == 1         \* calls the driver makes after filling the centroids

Payloads == 1..NumPayloads
Centroids == {"a", "b"}

\* payloadContainer.Vec(): payload 1 carries a vector of length two, the
\* others carry the vectors <<4>>, <<6>>, ... of length one.
pvec(p) == IF p = 1 THEN <<1, 1>> ELSE <<2 * p>>

\* Vectors a centroid may be built with and the capacity hints it may get.
\* A centroid's vector is a sequence of fractions <<numerator, denominator>>.
InitVecs == {<<0>>, <<0, 0>>}
InitCaps == {1}

VARIABLES
    vec,        \* Centroid.vec of each centroid
    DataPoints, \* Centroid.DataPoints of each centroid: a sequence of payloads
    capDP,      \* cap(Centroid.DataPoints)
    expired,    \* the payloads whose Expired() is true
    last,       \* the call that ran last: arguments, state before, results
    calls,      \* how many calls the driver has made after filling
    run         \* the call in progress, where a call is followed step by step

vars == <<vec, DataPoints, capDP, expired, last, calls, run>>

\* ----------------------------------------------------------- small helpers
Range(s) == {s[i] : i \in 1..Len(s)}

Min(a, b) == IF a < b THEN a ELSE b

RECURSIVE GCD(_, _)
GCD(a, b) == IF b = 0 THEN a ELSE GCD(b, a % b)

Frac(n, d) == LET g == GCD(n, d) IN <<n \div g, d \div g>>

ToFloats(v) == [i \in 1..Len(v) |-> <<v[i], 1>>]

\* The entries of s that satisfy Keep, in order.
RECURSIVE Filter(_, _)
Filter(s, keep) ==
    IF s = <<>> THEN <<>>
    ELSE IF Head(s) \in keep THEN <<Head(s)>> \o Filter(Tail(s), keep)
    ELSE Filter(Tail(s), keep)

Live(s) == Filter(s, Payloads \ expired)

\* How many entries of s are payload p.
Count(s, p) == Cardinality({i \in 1..Len(s) : s[i] = p})

\* Sequences of distinct elements of 0..m-1, at most k long.
RECURSIVE IndexLists(_, _)
IndexLists(m, k) ==
    IF k <= 0 \/ m <= 0 THEN {<<>>}
    ELSE {<<>>} \cup
         UNION {{s \o <<j>> : j \in (0..(m - 1)) \ Range(s)} :
                s \in IndexLists(m, k - 1)}

\* The driver keeps every slice at MaxHeld entries or fewer and asks for at
\* most MaxN payloads, so the index lists are tabulated once.
IndexListsOf ==
    [m \in 0..MaxHeld |-> [k \in 0..MaxN |-> IndexLists(m, k)]]

\* All sequences over S of length 0..n.
RECURSIVE SeqsUpTo(_, _)
SeqsUpTo(S, n) ==
    IF n = 0 THEN {<<>>}
    ELSE SeqsUpTo(S, n - 1) \cup
         {s \o <<x>> : s \in {t \in SeqsUpTo(S, n - 1) : Len(t) = n - 1}, x \in S}

\* --------------------------------------------------------------- the slice
\* append(c.DataPoints, p): the backing store grows when it is full.
appendCap(len, cap) == IF len < cap THEN cap ELSE IF cap = 0 THEN 1 ELSE 2 * cap

\* rmPayload: append(DataPoints[:index], DataPoints[index+1:]...).  The slice
\* expression panics when index is not a position of the slice.
rmPayloadKeeps(dp, index) == [dp |-> dp, panic |-> FALSE]

rmPayload(dp, index) ==
    IF index < 0 \/ index >= Len(dp)
    THEN [dp |-> dp, panic |-> TRUE]
    ELSE [dp |-> SubSeq(dp, 1, index) \o SubSeq(dp, index + 2, Len(dp)),
          panic |-> FALSE]

\* The removal loop `for _, i := range indexes { c.rmPayload(i) }`.
RECURSIVE rmIndexes(_, _)
rmIndexes(dp, indexes) ==
    IF indexes = <<>> THEN [dp |-> dp, panic |-> FALSE]
    ELSE LET r == rmPayload(dp, Head(indexes)) IN
         IF r.panic THEN r ELSE rmIndexes(r.dp, Tail(indexes))

\* ----------------------------------------------------------- the generator
\* The eviction loop at the head of the generator closure.
skipExpiredAtHead(dp, i) ==
    IF i < Len(dp) /\ dp[i + 1] \in expired THEN rmPayload(dp, 0).dp ELSE dp

skipExpiredOnce(dp, i) ==
    IF i < Len(dp) /\ dp[i + 1] \in expired THEN rmPayload(dp, i).dp ELSE dp

skipExpiredNever(dp, i) == dp

RECURSIVE skipExpired(_, _)
skipExpired(dp, i) ==
    IF i < Len(dp) /\ dp[i + 1] \in expired
    THEN skipExpired(rmPayload(dp, i).dp, i)
    ELSE dp

\* One call of the closure payloadVecGenerator returns, with cursor i.
genCall(dp, i) ==
    LET d == skipExpired(dp, i) IN
    IF i >= Len(d) THEN [dp |-> d, i |-> i, ok |-> FALSE]
    ELSE [dp |-> d, i |-> i + 1, ok |-> TRUE]

\* The closure called `pulls` times, or until it reports the end.
RECURSIVE payloadVecGenerator(_, _, _)
payloadVecGenerator(dp, i, pulls) ==
    IF pulls = 0 THEN [dp |-> dp, yielded |-> i, full |-> FALSE]
    ELSE LET g == genCall(dp, i) IN
         IF ~g.ok THEN [dp |-> g.dp, yielded |-> g.i, full |-> TRUE]
         ELSE payloadVecGenerator(g.dp, g.i, pulls - 1)

\* The payloads whose vectors those calls of the closure returned, in the
\* order they were returned (line 93 reads DataPoints[i-1] after the eviction).
RECURSIVE generated(_, _, _)
generated(dp, i, pulls) ==
    IF pulls = 0 THEN <<>>
    ELSE LET g == genCall(dp, i) IN
         IF ~g.ok THEN <<>>
         ELSE <<g.dp[g.i]>> \o generated(g.dp, g.i, pulls - 1)

\* ------------------------------------------------------------ the last call
NoCall ==
    [op |-> "none", c |-> "a", n |-> 0, p |-> 0, drain |-> FALSE,
     receivers |-> <<>>, pre |-> [c \in Centroids |-> <<>>],
     preVec |-> [c \in Centroids |-> <<>>], indexes |-> <<>>, full |-> FALSE,
     res |-> <<>>, ok |-> FALSE, offers |-> <<>>, panic |-> FALSE,
     searches |-> 0, yielded |-> <<>>]

Call(op, c) ==
    [NoCall EXCEPT !.op = op, !.c = c, !.pre = DataPoints, !.preVec = vec]

\* No call is in progress: the calls of the driver below run from start to end
\* in one step.
Idle == [pc |-> "idle", c |-> "a", i |-> 0, n |-> 0, res |-> <<>>,
         iters |-> 0, len0 |-> 0]

\* ------------------------------------------------------------------- driver
\* A panic ends the program.
Running == ~last.panic

\* The driver first fills the centroids while payloads expire, then makes
\* its calls.  It adds payloads it holds itself, up to MaxHeld entries.
Filling == calls = 0
Held == UNION {Range(DataPoints[c]) : c \in Centroids}
TotalHeld == Len(DataPoints["a"]) + Len(DataPoints["b"])
MayAdd(p) == p \notin Held /\ TotalHeld < MaxHeld

\* Every call after the filling is counted, up to MaxCalls.
Counted == calls < MaxCalls /\ calls' = calls + 1

ReceiverLists == SeqsUpTo(Centroids, MaxReceivers)

TypeOK ==
    /\ DataPoints \in [Centroids -> Seq(Payloads)]
    /\ expired \subseteq Payloads
    /\ \A c \in Centroids : capDP[c] >= Len(DataPoints[c])

Init ==
    /\ vec \in {v \in [Centroids -> {ToFloats(w) : w \in InitVecs}] :
                    Len(v["a"]) = 1}
    /\ DataPoints = [c \in Centroids |-> <<>>]
    /\ \E k \in InitCaps : capDP = [c \in Centroids |-> k]
    /\ expired = {}
    /\ last = NoCall
    /\ calls = 0
    /\ run = Idle

\* --------------------------------------------------------------- AddPayload
\* The guard of AddPayload (line 65), against the vectors vecs.
addPayloadOkNoLength(c, p, vecs) == p \notin expired
addPayloadOkNoExpiry(c, p, vecs) == Len(pvec(p)) = Len(vecs[c])
addPayloadOk(c, p, vecs) == Len(pvec(p)) = Len(vecs[c]) /\ p \notin expired

\* Lines 65-69 on the slices.
addPayload(c, p) ==
    LET ok == addPayloadOk(c, p, vec) IN
    /\ DataPoints' = IF ok THEN [DataPoints EXCEPT ![c] = Append(@, p)]
                     ELSE DataPoints
    /\ capDP' = IF ok
                THEN [capDP EXCEPT ![c] = appendCap(Len(DataPoints[c]), @)]
                ELSE capDP

AddPayload(c, p) ==
    /\ Running /\ Counted /\ MayAdd(p)
    /\ addPayload(c, p)
    /\ last' = [Call("AddPayload", c) EXCEPT
                   !.p = p, !.ok = addPayloadOk(c, p, vec)]
    /\ UNCHANGED <<vec, expired, run>>

\* The driver assigns a payload to a centroid while it fills the centroids.
Fill(c, p) ==
    /\ Running /\ Filling /\ MayAdd(p)
    /\ addPayload(c, p)
    /\ UNCHANGED <<vec, expired, last, calls, run>>

\* A payload's Expired() turns true; it never turns false again.
PayloadExpires(p) ==
    /\ Running /\ Filling
    /\ p \notin expired
    /\ Cardinality(expired) < MaxExpired
    /\ expired' = expired \cup {p}
    /\ UNCHANGED <<vec, DataPoints, capDP, last, calls, run>>

\* ----------------------------------------------------------- DrainUnordered
\* The loop condition of DrainUnordered (line 102).
drainMoreOffByOne(dp, res, n) == Len(dp) # 0 /\ Len(res) <= n
drainMore(dp, res, n) == Len(dp) # 0 /\ Len(res) < n

\* Lines 103-105: the head entry joins the result only if it is not expired.
keepHeadAlways(res, p) == Append(res, p)
keepHead(res, p) == IF p \notin expired THEN Append(res, p) ELSE res

\* The loop of DrainUnordered: the head entry is removed on every iteration.
RECURSIVE drainUnorderedLoop(_, _, _)
drainUnorderedLoop(dp, res, n) ==
    IF drainMore(dp, res, n)
    THEN drainUnorderedLoop(rmPayload(dp, 0).dp, keepHead(res, dp[1]), n)
    ELSE [dp |-> dp, res |-> res]

DrainUnordered(c, n) ==
    /\ Running /\ Counted
    /\ LET r == drainUnorderedLoop(DataPoints[c], <<>>, n) IN
       /\ DataPoints' = [DataPoints EXCEPT ![c] = r.dp]
       /\ last' = [Call("DrainUnordered", c) EXCEPT !.n = n, !.res = r.res]
    /\ UNCHANGED <<vec, capDP, expired, run>>

\* ------------------------------------------------------------- DrainOrdered
\* The payloads read at the indexes the search function returned.
collect(dp, indexes) == [j \in 1..Len(indexes) |-> dp[indexes[j] + 1]]

\* DrainOrdered with a search function that pulled the generator `pulls`
\* times and returned `indexes`.
drainOrdered(dp, pulls, indexes) ==
    LET g == payloadVecGenerator(dp, 0, pulls)
        r == rmIndexes(g.dp, indexes)
    IN [dp |-> r.dp, res |-> collect(g.dp, indexes), panic |-> r.panic,
        full |-> g.full]

\* What a search function handed k and the generator over dp may do: pull the
\* generator some number of times, then return a list of at most k distinct
\* indexes of vectors it was given.
Pulls(dp) == 0..(Len(dp) + 1)

Indexes(dp, pulls, k) ==
    IndexListsOf[payloadVecGenerator(dp, 0, pulls).yielded][k]

DrainOrdered(c, n) ==
    /\ Running /\ Counted
    /\ \E pulls \in Pulls(DataPoints[c]) :
       \E indexes \in Indexes(DataPoints[c], pulls, n) :
          LET r == drainOrdered(DataPoints[c], pulls, indexes) IN
          /\ DataPoints' = [DataPoints EXCEPT ![c] = r.dp]
          /\ last' = [Call("DrainOrdered", c) EXCEPT
                         !.n = n, !.indexes = indexes, !.full = r.full,
                         !.searches = 1,
                         !.yielded = generated(DataPoints[c], 0, pulls),
                         !.res = IF r.panic THEN <<>> ELSE r.res,
                         !.panic = r.panic]
    /\ UNCHANGED <<vec, capDP, expired, run>>

\* ------------------------------------------------------------------- Expire
\* Lines 137-141: the cursor stays where it is after a removal.
expireNextSkipping(dp, i) == [dp |-> rmPayload(dp, i).dp, i |-> i + 1]
expireNext(dp, i) == [dp |-> rmPayload(dp, i).dp, i |-> i]

RECURSIVE expireLoop(_, _)
expireLoop(dp, i) ==
    IF i < Len(dp)
    THEN IF dp[i + 1] \in expired
         THEN expireLoop(expireNext(dp, i).dp, expireNext(dp, i).i)
         ELSE expireLoop(dp, i + 1)
    ELSE dp

Expire(c) ==
    /\ Running /\ Counted
    /\ DataPoints' = [DataPoints EXCEPT ![c] = expireLoop(@, 0)]
    /\ last' = Call("Expire", c)
    /\ UNCHANGED <<vec, capDP, expired, run>>

LenDP(c) == Len(DataPoints[c])

\* ------------------------------------------------------------------ MemTrim
\* make([]payloadContainer, 0, len(c.DataPoints)), then the live entries are
\* appended to it.
memTrimCap(dp) == Len(dp)

MemTrim(c) ==
    /\ Running /\ Counted
    /\ DataPoints' = [DataPoints EXCEPT ![c] = Live(@)]
    /\ capDP' = [capDP EXCEPT ![c] = memTrimCap(DataPoints[c])]
    /\ last' = Call("MemTrim", c)
    /\ UNCHANGED <<vec, expired, run>>

\* --------------------------------------------------------------- MoveVector
RECURSIVE SumAt(_, _)
SumAt(s, k) == IF s = <<>> THEN 0 ELSE pvec(Head(s))[k] + SumAt(Tail(s), k)

\* mathutils.VecMean over the vectors of the payloads in s: the coordinate-wise
\* mean, and no result when the generator yields nothing.
VecMean(s) ==
    IF s = <<>> THEN [vec |-> <<>>, ok |-> FALSE]
    ELSE [vec |-> [k \in 1..Len(pvec(s[1])) |-> Frac(SumAt(s, k), Len(s))],
          ok |-> TRUE]

\* Lines 165-167: the vector is replaced only when VecMean reports success.
moveVectorUnchecked(old, m) == m.vec
moveVector(old, m) == IF m.ok THEN m.vec ELSE old

MoveVector(c) ==
    /\ Running /\ Counted
    /\ LET g == payloadVecGenerator(DataPoints[c], 0, Len(DataPoints[c]) + 1)
           y == generated(DataPoints[c], 0, Len(DataPoints[c]) + 1)
           m == VecMean(y)
       IN /\ DataPoints' = [DataPoints EXCEPT ![c] = g.dp]
          /\ vec' = [vec EXCEPT ![c] = moveVector(@, m)]
          /\ last' = [Call("MoveVector", c) EXCEPT !.ok = m.ok, !.full = g.full,
                                                  !.yielded = y]
    /\ UNCHANGED <<capDP, expired, run>>

\* ---------------------------------------------------------------- KNNLookup
knnLookupAlwaysDrains(dp, pulls, indexes, drain) ==
    LET g == payloadVecGenerator(dp, 0, pulls)
        r == rmIndexes(g.dp, indexes)
    IN [dp |-> r.dp, res |-> collect(g.dp, indexes), panic |-> r.panic,
        full |-> g.full]

knnLookup(dp, pulls, indexes, drain) ==
    LET g == payloadVecGenerator(dp, 0, pulls)
        r == IF drain THEN rmIndexes(g.dp, indexes)
             ELSE [dp |-> g.dp, panic |-> FALSE]
    IN [dp |-> r.dp, res |-> collect(g.dp, indexes), panic |-> r.panic,
        full |-> g.full]

KNNLookup(c, k, drain) ==
    /\ Running /\ Counted
    /\ \E pulls \in Pulls(DataPoints[c]) :
       \E indexes \in Indexes(DataPoints[c], pulls, k) :
          LET r == knnLookup(DataPoints[c], pulls, indexes, drain) IN
          /\ DataPoints' = [DataPoints EXCEPT ![c] = r.dp]
          /\ last' = [Call("KNNLookup", c) EXCEPT
                         !.n = k, !.drain = drain, !.indexes = indexes,
                         !.full = r.full, !.searches = 1,
                         !.yielded = generated(DataPoints[c], 0, pulls),
                         !.res = IF r.panic THEN <<>> ELSE r.res,
                         !.panic = r.panic]
    /\ UNCHANGED <<vec, capDP, expired, run>>

\* -------------------------------------------------------- DistributePayload
\* Lines 196-198 for one drained payload p: `pick` is the index the nearest
\* neighbour search returned over the receivers' vectors plus one, or 0 when
\* it returned none.  st holds the slices of all centroids.
offer(st, c, p, receivers, pick) ==
    LET to == IF pick = 0 THEN "none" ELSE receivers[pick]
        accepted == pick # 0 /\ addPayloadOk(to, p, vec)
        home == IF accepted THEN to ELSE c
        added == accepted \/ addPayloadOk(c, p, vec)
    IN [dp |-> IF added THEN [st.dp EXCEPT ![home] = Append(@, p)] ELSE st.dp,
        cap |-> IF added
                THEN [st.cap EXCEPT ![home] = appendCap(Len(st.dp[home]), @)]
                ELSE st.cap,
        offers |-> Append(st.offers,
                          [p |-> p, to |-> to, accepted |-> accepted,
                           back |-> ~accepted /\ added])]

\* The loop over data, lines 192-199.
RECURSIVE distribute(_, _, _, _, _, _)
distribute(st, c, data, receivers, picks, j) ==
    IF j > Len(data) THEN st
    ELSE distribute(offer(st, c, data[j], receivers, picks[j]),
                    c, data, receivers, picks, j + 1)

\* DistributePayload past the guard of line 177, given what DrainOrdered did
\* (d): the offers.  `picks` holds the nearest-neighbour search's answer for
\* each drained payload.
distributePayload(c, d, receivers, picks) ==
    LET st0 == [dp |-> [DataPoints EXCEPT ![c] = d.dp], cap |-> capDP,
                offers |-> <<>>]
    IN IF d.panic THEN st0
       ELSE distribute(st0, c, d.res, receivers, picks, 1)

\* Line 177: nothing is done for a nil or empty receiver list.
noReceiversUnchecked(receivers) == FALSE
noReceivers(receivers) == receivers = <<>>

DistributePayload(c, n, receivers) ==
    /\ Running /\ Counted
    /\ IF noReceivers(receivers)
       THEN /\ last' = [Call("DistributePayload", c) EXCEPT !.n = n]
            /\ UNCHANGED <<DataPoints, capDP>>
       ELSE \E pulls \in Pulls(DataPoints[c]) :
            \E indexes \in Indexes(DataPoints[c], pulls, n) :
               LET d == drainOrdered(DataPoints[c], pulls, indexes) IN
               \E picks \in [1..Len(indexes) -> 0..Len(receivers)] :
                  LET st == distributePayload(c, d, receivers, picks) IN
                  /\ DataPoints' = st.dp
                  /\ capDP' = st.cap
                  /\ last' = [Call("DistributePayload", c) EXCEPT
                                 !.n = n, !.receivers = receivers,
                                 !.indexes = indexes, !.full = d.full,
                                 !.res = IF d.panic THEN <<>> ELSE d.res,
                                 !.offers = st.offers, !.panic = d.panic,
                                 !.searches = 1 + Len(st.offers)]
    /\ UNCHANGED <<vec, expired, run>>

\* --------------------------------------------------------------------- Next
Next ==
    \/ \E c \in Centroids, p \in Payloads : Fill(c, p)
    \/ \E c \in Centroids, p \in Payloads : AddPayload(c, p)
    \/ \E p \in Payloads : PayloadExpires(p)
    \/ \E c \in Centroids, n \in 0..MaxN : DrainUnordered(c, n)
    \/ \E c \in Centroids, n \in 0..MaxN : DrainOrdered(c, n)
    \/ \E c \in Centroids : Expire(c)
    \/ \E c \in Centroids : MemTrim(c)
    \/ \E c \in Centroids : MoveVector(c)
    \/ \E c \in Centroids, k \in 0..MaxN, drain \in BOOLEAN :
            KNNLookup(c, k, drain)
    \/ \E c \in Centroids, n \in 0..MaxN, receivers \in ReceiverLists :
            DistributePayload(c, n, receivers)

Spec == Init /\ [][Next]_vars

\* The driver that calls only the methods that use no search function.
NextNoSearch ==
    \/ \E c \in Centroids, p \in Payloads : Fill(c, p)
    \/ \E c \in Centroids, p \in Payloads : AddPayload(c, p)
    \/ \E p \in Payloads : PayloadExpires(p)
    \/ \E c \in Centroids, n \in 0..MaxN : DrainUnordered(c, n)
    \/ \E c \in Centroids : Expire(c)
    \/ \E c \in Centroids : MemTrim(c)
    \/ \E c \in Centroids : MoveVector(c)

SpecNoSearch == Init /\ [][NextNoSearch]_vars

\* =================================================================== claims
\* The centroid of the last call, its slice before and after the call.
self == last.c
before == last.pre[last.c]
after == DataPoints[last.c]
Returned(op) == last.op = op /\ ~last.panic

\* How many entries of all slices in dps are payload p.
HeldCount(dps, p) == Count(dps["a"], p) + Count(dps["b"], p)

\* C1: DistributePayload with a non-empty receiver list keeps every payload
\* that was not expired before the call held exactly as often as before: none
\* is dropped, none is held twice.  (Stated for the calls that return.)
C1_NoLoss ==
    (Returned("DistributePayload") /\ last.receivers # <<>>) =>
        \A p \in Payloads \ expired :
            HeldCount(DataPoints, p) = HeldCount(last.pre, p)

\* C2: in DistributePayload every drained payload is offered to the receiver
\* the search picked; when the search picked none or the receiver refused, the
\* payload is held by self again, otherwise it is held by that receiver and
\* not by self.  (Stated for receiver lists that do not contain self.)
C2_OfferedOnce ==
    (Returned("DistributePayload") /\ self \notin Range(last.receivers)) =>
        \A j \in 1..Len(last.offers) :
            LET o == last.offers[j] IN
            IF o.accepted
            THEN /\ Count(DataPoints[o.to], o.p) = 1
                 /\ Count(after, o.p) = 0
            ELSE Count(after, o.p) = 1

\* C3: DrainOrdered returns the payloads at the indexes the search returned
\* and removes exactly those: none of them is still held, every other payload
\* that was not expired is still held, and when the search read the whole
\* generator LenDP() is the number of non-expired payloads before the call
\* less len(result).
C3_DrainOrderedRemovesResult ==
    Returned("DrainOrdered") =>
        /\ \A p \in Range(last.res) : p \notin Range(after)
        /\ \A p \in Range(Live(before)) \ Range(last.res) : p \in Range(after)
        /\ last.full => Len(after) = Len(Live(before)) - Len(last.res)

\* C4: KNNLookup(v, k, true) removes exactly the payloads it returns and
\* LenDP() shrinks by len(result).  (Stated for collections that hold no
\* expired payload.)
C4_KNNDrainConsistent ==
    (Returned("KNNLookup") /\ last.drain /\ Live(before) = before) =>
        /\ \A p \in Range(last.res) : p \notin Range(after)
        /\ \A p \in Range(before) \ Range(last.res) : p \in Range(after)
        /\ Len(after) = Len(before) - Len(last.res)

\* C5 as stated: after DrainUnordered(n), LenDP() is smaller than before by
\* exactly len(result), and the result holds no expired payload.
C5_ShrinksByResult ==
    Returned("DrainUnordered") =>
        /\ LenDP(self) = Len(before) - Len(last.res)
        /\ Range(last.res) \cap expired = {}

\* The entries DrainUnordered took off the head of the slice.
Removed == SubSeq(before, 1, Len(before) - Len(after))

\* C5 amended: after DrainUnordered(n), LenDP() is smaller than before by
\* len(result) plus the number of expired payloads the call discarded, and
\* the result holds no expired payload.
C5_ShrinksByResultAndExpired ==
    Returned("DrainUnordered") =>
        /\ LenDP(self) <= Len(before)
        /\ Len(before) - LenDP(self) =
               Len(last.res) + (Len(Removed) - Len(Live(Removed)))
        /\ Range(last.res) \cap expired = {}

C5_Witness ==
    /\ Returned("DrainUnordered")
    /\ Len(last.res) = 1
    /\ Len(before) - Len(after) = 2

\* The length of the shortest prefix of s that holds n non-expired entries,
\* or of s itself when it holds fewer.
Reach(s, n) ==
    LET enough == {r \in 0..Len(s) : Len(Live(SubSeq(s, 1, r))) >= n}
    IN IF enough = {} THEN Len(s)
       ELSE CHOOSE r \in enough : \A q \in enough : r <= q

\* C6: DrainUnordered(n) returns exactly min(n, L) payloads, L the number of
\* non-expired payloads held before; the expired payloads it passed over are
\* removed and not returned, and the entries it did not reach stay.
C6_DrainUnorderedCount ==
    Returned("DrainUnordered") =>
        LET r == Reach(before, last.n) IN
        /\ Len(last.res) = Min(last.n, Len(Live(before)))
        /\ last.res = Live(SubSeq(before, 1, r))
        /\ after = SubSeq(before, r + 1, Len(before))

C6_Witness ==
    /\ Returned("DrainUnordered")
    /\ last.n = 1
    /\ Len(before) = 3
    /\ before[1] \in expired
    /\ before[2] \notin expired
    /\ before[3] \in expired
    /\ Len(after) = 1

\* C7: after Expire() no held payload is expired and every payload that was
\* held and not expired is still held, in the same order.
C7_ExpireSweeps ==
    Returned("Expire") =>
        /\ \A i \in 1..Len(after) : after[i] \notin expired
        /\ after = Live(before)

C7_Witness ==
    /\ Returned("Expire")
    /\ Len(before) = 3
    /\ before[1] \in expired
    /\ before[2] \in expired
    /\ Len(after) = 1

\* C8: AddPayload(p) returns true and appends p exactly when p's vector is as
\* long as the centroid's and p is not expired; otherwise it returns false and
\* leaves the collection and the vector as they were.
C8_AddPayloadGuard ==
    Returned("AddPayload") =>
        /\ last.ok <=> (Len(pvec(last.p)) = Len(last.preVec[self])
                        /\ last.p \notin expired)
        /\ last.ok => DataPoints = [last.pre EXCEPT ![self] = Append(@, last.p)]
        /\ ~last.ok => DataPoints = last.pre
        /\ vec = last.preVec

C8_Witness ==
    /\ Returned("AddPayload")
    /\ ~last.ok
    /\ last.p \notin expired
    /\ before # <<>>

\* C9: MoveVector() returns false and leaves the vector as it was when the
\* centroid holds no non-expired payload; otherwise it returns true and the
\* vector is the mean of the non-expired payloads' vectors.
C9_MoveVector ==
    Returned("MoveVector") =>
        /\ last.ok <=> (Live(before) # <<>>)
        /\ ~last.ok => vec = last.preVec
        /\ last.ok =>
              vec = [last.preVec EXCEPT ![self] = VecMean(Live(before)).vec]

C9_Witness ==
    /\ Returned("MoveVector")
    /\ ~last.ok
    /\ before # <<>>

\* C10: after MemTrim() the capacity of the backing store equals the number
\* of payloads held.
C10_MemTrimCap ==
    Returned("MemTrim") => capDP[self] = LenDP(self)

\* ============================================================== NewCentroid
\* The arguments NewCentroid is called with: InitVec is a []float64, the two
\* search functions are nil or a function, InitCap is a capacity hint >= 0.
NewVecs == {<<>>, <<<<1, 1>>>>, <<<<0, 1>>, <<2, 1>>>>, <<<<3, 1>>, <<3, 1>>>>}
NewCaps == {0, 2}
SearchFuncs == {"nil", "func"}
NewCentroidArgs ==
    [InitVec : NewVecs, InitCap : NewCaps,
     KNNSearchFunc : SearchFuncs, KFNSearchFunc : SearchFuncs]

\* Line 43: the guard of NewCentroid.
newCentroidFailsBothNil(args) ==
    args.KNNSearchFunc = "nil" /\ args.KFNSearchFunc = "nil"
newCentroidFails(args) ==
    args.KNNSearchFunc = "nil" \/ args.KFNSearchFunc = "nil"

\* Lines 48 and 53-55: make([]float64, len(InitVec)), then the copy loop over
\* the first n elements.
RECURSIVE copyVec(_, _, _)
copyVec(dst, src, n) ==
    IF n = 0 THEN dst ELSE copyVec([dst EXCEPT ![n] = src[n]], src, n - 1)

newVec(args) ==
    copyVec([i \in 1..Len(args.InitVec) |-> <<0, 1>>], args.InitVec,
            Len(args.InitVec))

\* What NewCentroid returns: (nil, false) or (&c, true).
newCentroid(args) ==
    IF newCentroidFails(args) THEN [obj |-> "nil", ok |-> FALSE]
    ELSE [obj |-> [vec |-> newVec(args), DataPoints |-> <<>>,
                   cap |-> args.InitCap,
                   knnSearchFunc |-> args.KNNSearchFunc,
                   kfnSearchFunc |-> args.KFNSearchFunc],
          ok |-> TRUE]

\* The driver calls NewCentroid and keeps the centroid it gets as centroid c.
NewCentroid(c, args) ==
    LET r == newCentroid(args) IN
    /\ last' = [op |-> "NewCentroid", c |-> c, args |-> args, obj |-> r.obj,
                ok |-> r.ok, panic |-> FALSE]
    /\ vec' = IF r.ok THEN [vec EXCEPT ![c] = r.obj.vec] ELSE vec
    /\ DataPoints' = IF r.ok THEN [DataPoints EXCEPT ![c] = r.obj.DataPoints]
                     ELSE DataPoints
    /\ capDP' = IF r.ok THEN [capDP EXCEPT ![c] = r.obj.cap] ELSE capDP
    /\ UNCHANGED <<expired, calls, run>>

\* Before any centroid is built the driver holds none.
InitNew ==
    /\ vec = [c \in Centroids |-> <<>>]
    /\ DataPoints = [c \in Centroids |-> <<>>]
    /\ capDP = [c \in Centroids |-> 0]
    /\ expired = {}
    /\ last = NoCall
    /\ calls = 0
    /\ run = Idle

NextNew == \E c \in Centroids, args \in NewCentroidArgs : NewCentroid(c, args)

SpecNew == InitNew /\ [][NextNew]_vars

C12_NoReceiversNoOp ==
    (last.op = "DistributePayload" /\ last.receivers = <<>>) =>
        /\ ~last.panic
        /\ DataPoints = last.pre
        /\ vec = last.preVec
        /\ last.searches = 0
        /\ last.res = <<>>

C12_Witness ==
    /\ last.op = "DistributePayload"
    /\ last.receivers = <<>>
    /\ last.n = 2
    /\ Len(before) = 3
    /\ before[1] \in expired
    /\ after = before

\* C13: index alignment.  After a search function has consumed the generator,
\* fully or in part, the j-th vector it was given is the vector of the payload
\* at position j of the collection, evictions notwithstanding; so the payload
\* DrainOrdered and KNNLookup return for an index is the payload whose vector
\* was yielded at that index.
Consumed == last.op \in {"DrainOrdered", "KNNLookup"} /\ ~last.panic

C13_IndexAlignment ==
    Consumed =>
        /\ Len(last.res) = Len(last.indexes)
        /\ \A j \in 1..Len(last.indexes) :
              /\ last.indexes[j] < Len(last.yielded)
              /\ last.res[j] = last.yielded[last.indexes[j] + 1]
        /\ (last.op = "KNNLookup" /\ ~last.drain) =>
              /\ Len(last.yielded) <= Len(after)
              /\ \A j \in 1..Len(last.yielded) : after[j] = last.yielded[j]

C13_Witness ==
    /\ last.op = "KNNLookup" /\ ~last.drain /\ ~last.full
    /\ Len(before) = 3 /\ before[2] \in expired
    /\ Len(last.yielded) = 2
    /\ last.indexes = <<1, 0>>
    /\ last.res = <<before[3], before[1]>>

\* C14: a generator consumed to its end has yielded the vector of every
\* non-expired payload exactly once, in store order, and of no expired one,
\* and leaves the collection holding exactly those payloads; so MoveVector
\* takes the mean over exactly the non-expired payloads.
C14_FullGenerator ==
    /\ (Consumed /\ last.full) =>
          /\ last.yielded = Live(before)
          /\ (last.op = "KNNLookup" /\ ~last.drain) => after = Live(before)
    /\ Returned("MoveVector") =>
          /\ last.full
          /\ last.yielded = Live(before)
          /\ after = Live(before)
          /\ Live(before) # <<>> => vec[self] = VecMean(Live(before)).vec

C14_Witness ==
    /\ Returned("MoveVector") /\ last.ok
    /\ Len(before) = 3
    /\ before[1] \in expired /\ before[2] \in expired
    /\ after = <<before[3]>>
    /\ vec[self] = ToFloats(pvec(before[3]))

\* C15: no call of DrainOrdered or KNNLookup reads or removes outside the
\* collection: every DataPoints[i] and every rmPayload(i) has 0 <= i < the
\* current length, whatever list of distinct yielded indexes the search
\* function returns.  An access outside the slice is a panic.
C15_InBounds ==
    last.op \in {"DrainOrdered", "KNNLookup"} => ~last.panic

\* C16: after any sequence of calls every payload a centroid holds has a
\* vector as long as the centroid's vector is then.
C16_SameLength ==
    \A c \in Centroids : \A j \in 1..Len(DataPoints[c]) :
        Len(pvec(DataPoints[c][j])) = Len(vec[c])

C16_Witness ==
    /\ Returned("MoveVector") /\ last.ok
    /\ self = "b"
    /\ vec["b"] # last.preVec["b"]
    /\ Len(vec["b"]) = 2
    /\ DataPoints["a"] # <<>>

\* C18: KNNLookup(v, k, false) removes no non-expired payload: the non-expired
\* payloads held afterwards are those held before, in the same order, and the
\* vector is unchanged; what the call removes are expired payloads the
\* generator evicted.
C18_LookupKeeps ==
    (last.op = "KNNLookup" /\ ~last.drain) =>
        /\ ~last.panic
        /\ Live(after) = Live(before)
        /\ vec = last.preVec
        /\ \A c \in Centroids \ {self} : DataPoints[c] = last.pre[c]
        /\ \A p \in Payloads :
              /\ Count(after, p) <= Count(before, p)
              /\ Count(after, p) < Count(before, p) => p \in expired

C18_Witness ==
    /\ last.op = "KNNLookup" /\ ~last.drain
    /\ Len(before) = 3 /\ before[1] \in expired /\ before[3] \in expired
    /\ Len(last.res) = 1
    /\ after = <<before[2], before[3]>>

\* C19: a payload that has expired is handed out by no later call: it is not
\* in the result of DrainUnordered, nor of DrainOrdered or KNNLookup when the
\* search function consumed the whole generator, AddPayload does not accept
\* it, and DistributePayload moves it to no receiving centroid.
C19_ExpiredStaysIn ==
    /\ Returned("DrainUnordered") => Range(last.res) \cap expired = {}
    /\ (Consumed /\ last.full) => Range(last.res) \cap expired = {}
    /\ (Returned("AddPayload") /\ last.ok) => last.p \notin expired
    /\ Returned("DistributePayload") =>
          \A j \in 1..Len(last.offers) :
              (last.offers[j].accepted \/ last.offers[j].back) =>
                  last.offers[j].p \notin expired

C19_Witness ==
    /\ Returned("DrainOrdered") /\ last.full
    /\ Len(before) = 3
    /\ before[1] \in expired /\ before[2] \in expired
    /\ last.indexes = <<0>>
    /\ last.res = <<before[3]>>
    /\ after = <<>>

\* ================================================= the loops, step by step
\* The loops of Expire, DrainUnordered and of the generator closure, one
\* iteration per step, on centroid run.c.  run.i is the cursor, run.iters the
\* number of iterations made, run.len0 the length when the call began.
cur == DataPoints[run.c]

Begin(op, c, n) ==
    [Idle EXCEPT !.pc = op, !.c = c, !.n = n, !.len0 = Len(DataPoints[c])]

Iterated == [run EXCEPT !.iters = @ + 1]

\* Expire, lines 134-143.
ExpireBegin(c) ==
    /\ Running /\ Counted /\ run.pc = "idle"
    /\ run' = Begin("Expire", c, 0)
    /\ UNCHANGED <<vec, DataPoints, capDP, expired, last>>

ExpireIter ==
    /\ run.pc = "Expire"
    /\ IF run.i < Len(cur)
       THEN IF cur[run.i + 1] \in expired
            THEN LET x == expireNext(cur, run.i) IN
                 /\ DataPoints' = [DataPoints EXCEPT ![run.c] = x.dp]
                 /\ run' = [Iterated EXCEPT !.i = x.i]
            ELSE /\ run' = [Iterated EXCEPT !.i = @ + 1]
                 /\ UNCHANGED DataPoints
       ELSE /\ run' = Idle
            /\ UNCHANGED DataPoints
    /\ UNCHANGED <<vec, capDP, expired, last, calls>>

\* DrainUnordered, lines 100-109.
DrainUnorderedBegin(c, n) ==
    /\ Running /\ Counted /\ run.pc = "idle"
    /\ run' = Begin("DrainUnordered", c, n)
    /\ UNCHANGED <<vec, DataPoints, capDP, expired, last>>

DrainUnorderedIter ==
    /\ run.pc = "DrainUnordered"
    /\ IF drainMore(cur, run.res, run.n)
       THEN /\ DataPoints' = [DataPoints EXCEPT ![run.c] = rmPayload(cur, 0).dp]
            /\ run' = [Iterated EXCEPT !.res = keepHead(@, cur[1])]
       ELSE /\ run' = Idle
            /\ UNCHANGED DataPoints
    /\ UNCHANGED <<vec, capDP, expired, last, calls>>

\* A search function is handed the generator of lines 82-95 ...
GeneratorBegin(c) ==
    /\ Running /\ Counted /\ run.pc = "idle"
    /\ run' = Begin("search", c, 0)
    /\ UNCHANGED <<vec, DataPoints, capDP, expired, last>>

\* ... calls it ...
GeneratorCall ==
    /\ run.pc = "search"
    /\ run' = [run EXCEPT !.pc = "generator"]
    /\ UNCHANGED <<vec, DataPoints, capDP, expired, last, calls>>

\* ... the closure evicts an expired payload at the cursor (lines 86-88), or
\* leaves the loop and returns the end (89-91) or a vector (92-93) ...
GeneratorIter ==
    /\ run.pc = "generator"
    /\ IF run.i < Len(cur) /\ cur[run.i + 1] \in expired
       THEN /\ DataPoints' = [DataPoints EXCEPT ![run.c] = rmPayload(cur, run.i).dp]
            /\ run' = Iterated
       ELSE /\ run' = IF run.i >= Len(cur) THEN Idle
                      ELSE [Iterated EXCEPT !.pc = "search", !.i = @ + 1]
            /\ UNCHANGED DataPoints
    /\ UNCHANGED <<vec, capDP, expired, last, calls>>

\* ... and returns when it has seen enough.
SearchReturns ==
    /\ run.pc = "search"
    /\ run' = Idle
    /\ UNCHANGED <<vec, DataPoints, capDP, expired, last, calls>>

LoopStep ==
    \/ ExpireIter
    \/ DrainUnorderedIter
    \/ GeneratorCall
    \/ GeneratorIter
    \/ SearchReturns

NextLoops ==
    \/ \E c \in Centroids, p \in Payloads : Fill(c, p)
    \/ \E p \in Payloads : PayloadExpires(p)
    \/ \E c \in Centroids : ExpireBegin(c)
    \/ \E c \in Centroids, n \in 0..MaxN : DrainUnorderedBegin(c, n)
    \/ \E c \in Centroids : GeneratorBegin(c)
    \/ ExpireIter
    \/ DrainUnorderedIter
    \/ GeneratorCall
    \/ GeneratorIter
    \/ SearchReturns

\* A call that has begun goes on: the loops run in the caller's goroutine and
\* the search function is taken to return.
SpecLoops == Init /\ [][NextLoops]_vars /\ WF_vars(LoopStep)

\* C20: every call ends.  Each iteration of the loops of Expire, of
\* DrainUnordered and of the generator's eviction either shrinks the
\* collection or moves the cursor on, so a call makes at most as many
\* iterations as the collection had entries when it began.
Shrinks == Len(DataPoints'[run.c]) < Len(cur) /\ run'.i = run.i
Advances == DataPoints' = DataPoints /\ run'.i = run.i + 1

C20_LoopsEnd ==
    /\ [](run.iters <= run.len0)
    /\ [][run'.iters = run.iters + 1 => (Shrinks \/ Advances)]_vars
    /\ (run.pc # "idle") ~> (run.pc = "idle")

C20_Witness ==
    /\ run.pc = "Expire"
    /\ run.iters = 3 /\ run.len0 = 3
    /\ run.i = 1
    /\ Len(cur) = 1

\* ============================== two DistributePayload calls run concurrently
\* Goroutine g runs g.DistributePayload(1, [other(g)]) while the other centroid
\* does the same, with no lock.  Nothing has expired, so the generator evicts
\* nothing.  A goroutine reads and writes the field DataPoints of a centroid
\* in separate steps: rmPayload (line 76) and AddPayload (line 68) each read the
\* slice, build the new one and store it.  run.ver counts the stores to each
\* collection; a store that follows another goroutine's store made since its
\* own read overwrites it, and run.raced records that this happened.
other(g) == IF g = "a" THEN "b" ELSE "a"

Goroutine ==
    [pc |-> "search", idx |-> 0, data |-> 0, to |-> "a", local |-> <<>>,
     seen |-> 0, ok |-> FALSE]

proc(g) == run.proc[g]

Step(g, new) == [run EXCEPT !.proc[g] = new]

\* The store c.DataPoints = dp by goroutine g, which read the slice at
\* version proc(g).seen.
Store(g, c, new) ==
    [run EXCEPT !.proc[g] = new,
                !.ver[c] = @ + 1,
                !.raced = @ \/ run.ver[c] # proc(g).seen]

\* append(c.DataPoints, p) on the slice as it was read.
appendToDrops(local, p) == local
appendTo(local, p) == Append(local, p)

RaceBegin ==
    /\ Running /\ Counted /\ run = Idle
    /\ run' = [proc |-> [g \in Centroids |-> Goroutine],
               ver |-> [c \in Centroids |-> 0], raced |-> FALSE]
    /\ UNCHANGED <<vec, DataPoints, capDP, expired, last>>

InRace == run # Idle

\* DrainOrdered(1), line 120-123: the search function returns no index or one
\* index of the collection as it is now, and the payload there is read.
RaceSearch(g) ==
    /\ InRace /\ proc(g).pc = "search"
    /\ \E indexes \in IndexListsOf[Len(DataPoints[g])][1] :
          run' = Step(g, IF indexes = <<>>
                         THEN [proc(g) EXCEPT !.pc = "done"]
                         ELSE [proc(g) EXCEPT
                                  !.pc = "rmRead", !.idx = indexes[1],
                                  !.data = DataPoints[g][indexes[1] + 1]])
    /\ UNCHANGED <<vec, DataPoints, capDP, expired, last, calls>>

\* rmPayload(idx), line 76: the slice is read ...
RaceRmRead(g) ==
    /\ InRace /\ proc(g).pc = "rmRead"
    /\ run' = Step(g, [proc(g) EXCEPT !.pc = "rmWrite",
                                      !.local = DataPoints[g],
                                      !.seen = run.ver[g]])
    /\ UNCHANGED <<vec, DataPoints, capDP, expired, last, calls>>

\* ... and the slice without the entry is stored.
RaceRmWrite(g) ==
    /\ InRace /\ proc(g).pc = "rmWrite"
    /\ LET r == rmPayload(proc(g).local, proc(g).idx) IN
       /\ DataPoints' = [DataPoints EXCEPT ![g] = r.dp]
       /\ run' = Store(g, g, [proc(g) EXCEPT
                                 !.pc = IF r.panic THEN "panic" ELSE "knn"])
    /\ UNCHANGED <<vec, capDP, expired, last, calls>>

\* Lines 194-198: the nearest-neighbour search names the receiver or nothing;
\* AddPayload of the receiver checks the payload (line 65), and the payload
\* goes back to the centroid itself if there is no receiver or it refuses.
RaceKnn(g) ==
    /\ InRace /\ proc(g).pc = "knn"
    /\ \E pick \in 0..1 :
          LET accepted == pick # 0 /\ addPayloadOk(other(g), proc(g).data, vec)
              home == IF accepted THEN other(g) ELSE g
          IN run' = Step(g, IF accepted \/ addPayloadOk(g, proc(g).data, vec)
                            THEN [proc(g) EXCEPT !.pc = "addRead", !.to = home]
                            ELSE [proc(g) EXCEPT !.pc = "done"])
    /\ UNCHANGED <<vec, DataPoints, capDP, expired, last, calls>>

\* AddPayload, line 68: the slice is read ...
RaceAddRead(g) ==
    /\ InRace /\ proc(g).pc = "addRead"
    /\ run' = Step(g, [proc(g) EXCEPT !.pc = "addWrite",
                                      !.local = DataPoints[proc(g).to],
                                      !.seen = run.ver[proc(g).to]])
    /\ UNCHANGED <<vec, DataPoints, capDP, expired, last, calls>>

\* ... the slice with the payload appended is stored, and true is returned.
RaceAddWrite(g) ==
    /\ InRace /\ proc(g).pc = "addWrite"
    /\ LET to == proc(g).to IN
       /\ DataPoints' = [DataPoints EXCEPT
                            ![to] = appendTo(proc(g).local, proc(g).data)]
       /\ capDP' = [capDP EXCEPT ![to] = appendCap(Len(proc(g).local), @)]
       /\ run' = Store(g, to, [proc(g) EXCEPT !.pc = "done", !.ok = TRUE])
    /\ UNCHANGED <<vec, expired, last, calls>>

NextRace ==
    \/ \E c \in Centroids, p \in Payloads : Fill(c, p)
    \/ RaceBegin
    \/ \E g \in Centroids : RaceSearch(g)
    \/ \E g \in Centroids : RaceRmRead(g)
    \/ \E g \in Centroids : RaceRmWrite(g)
    \/ \E g \in Centroids : RaceKnn(g)
    \/ \E g \in Centroids : RaceAddRead(g)
    \/ \E g \in Centroids : RaceAddWrite(g)

SpecRace == Init /\ [][NextRace]_vars

\* C17: two centroids that have each other as receivers run DistributePayload
\* at the same time without a lock.  A payload whose AddPayload returned true
\* can end up held by neither centroid, and that happens only when a store to
\* a collection overwrote another goroutine's store (a lost update).
BothDone == InRace /\ \A g \in Centroids : proc(g).pc = "done"

Lost(g) == proc(g).ok /\ proc(g).data \notin Held

C17_LostOnlyByRace ==
    BothDone => (\A g \in Centroids : ~Lost(g)) \/ run.raced

C17_Witness ==
    /\ BothDone
    /\ \A g \in Centroids : proc(g).ok
    /\ \E g \in Centroids : Lost(g) /\ proc(g).to = other(g)
====
